---- MODULE Spec2Model ----
(***************************************************************************)
(* Model of target-encoding-rs: the streaming codepage decoder             *)
(* (ByteDecoder), the codepage encoder (ByteEncoder) of src/windows.rs and *)
(* the UTF-8 encoder (Utf8Encoder) of src/not_windows.rs.                  *)
(*                                                                         *)
(* Bytes, UTF-16 units and scalar values are integers.  An Option<u8> is a *)
(* sequence of length 0 (None) or 1 (Some).  The operating system's        *)
(* conversion calls are modelled over a family of codepages, each given by *)
(* a table over a small byte alphabet; the entries the repository's tests  *)
(* state are exact, the others stand for their class of behaviour.         *)
(***************************************************************************)
EXTENDS Integers, Sequences, FiniteSets, TLC

VARIABLES
    codepage,           \* ByteDecoder.codepage / ByteEncoder.codepage
    input,              \* the bytes the upstream byte source was created with
    iter,               \* ByteDecoder.iter: the bytes not yet pulled
    buf,                \* ByteDecoder.buf: the pushback slot, <<>> or <<byte>>
    default_character,  \* ByteDecoder.default_character
    dstate,             \* "unbuilt", "ready" (new returned Ok), "failed" (new returned
                        \* Err), "panicked" (next panicked)
    items,              \* every item ByteDecoder::next has yielded, in order
    call,               \* what the last ByteDecoder::next call did
    kind,               \* which encoder is under test: "byte" or "utf8"
    text,               \* the characters the upstream character source was created with
    citer,              \* the encoder's iter: the characters not yet pulled
    buffer,             \* the encoder's buffer: [u8; 4]
    buffer_index,       \* the encoder's cursor
    buffer_size,        \* the encoder's count of valid bytes
    estate,             \* "unbuilt", "ready", "panicked"
    emitted,            \* every byte the encoder's next has yielded, in order
    ecall               \* what the last encoder next call did

dvars == <<codepage, input, iter, buf, default_character, dstate, items, call>>
evars == <<kind, text, citer, buffer, buffer_index, buffer_size, estate, emitted, ecall>>
vars == <<codepage, input, iter, buf, default_character, dstate, items, call,
          kind, text, citer, buffer, buffer_index, buffer_size, estate, emitted, ecall>>

(***************************************************************************)
(* Bounds of the model.                                                    *)
(***************************************************************************)
\* longest upstream byte sequence over a codepage's whole alphabet
MaxInput == 4
\* longest upstream byte sequence over a codepage's two-byte long-run alphabet
MaxLong == 9
\* longest upstream character sequence
MaxText == 3
\* most items a ByteDecoder is asked for
MaxItems == 12

(***************************************************************************)
(* Program constants.                                                      *)
(***************************************************************************)
\* let mut byte_buf = [0u8; 8];
ByteBufLen == 8
\* let mut char_buf = [0u16; 3];
CharBufLen == 3
\* buffer: [u8; 4]
BufferLen == 4

(***************************************************************************)
(* Sequences and bit arithmetic.                                           *)
(***************************************************************************)
SeqsUpTo(S, n) == UNION {[1..k -> S] : k \in 0..n}

RECURSIVE BitOr(_, _)
BitOr(a, b) ==
    IF a = 0 THEN b
    ELSE IF b = 0 THEN a
    ELSE (IF a % 2 = 1 \/ b % 2 = 1 THEN 1 ELSE 0) + 2 * BitOr(a \div 2, b \div 2)

\* u16 subtraction as the release build computes it (wrapping)
SubU16(a, b) == (a - b + 65536) % 65536

(***************************************************************************)
(* The codepage conversion capability (the winapi calls).                  *)
(***************************************************************************)
\* the codepages GetCPInfoExA knows
Supported == {"866", "857", "932", "65001", "54936", "lenient", "65000",
              "contextual", "decomposing"}
\* a codepage identifier the system does not know
Codepages == Supported \cup {"unknown"}

\* The complete characters of a codepage: byte run -> UTF-16 units, as
\* MultiByteToWideChar converts them with MB_ERR_INVALID_CHARS.
MbTable(cp) ==
    CASE cp = "866" ->      \* single byte, every byte mapped (test_cp866_decode)
            (<<\h54>> :> <<\h54>>) @@ (<<\h92>> :> <<\h0422>>) @@ (<<\hA5>> :> <<\h0435>>)
            @@ (<<\hE1>> :> <<\h0441>>) @@ (<<\hE2>> :> <<\h0442>>)
            @@ (<<\h3F>> :> <<\h3F>>)
      [] cp = "857" ->      \* single byte, D5 unmapped (test_invalid_decode)
            (<<\h54>> :> <<\h54>>) @@ (<<\h65>> :> <<\h65>>) @@ (<<\h73>> :> <<\h73>>)
            @@ (<<\h74>> :> <<\h74>>)
      [] cp = "932" ->      \* double byte (test_cp932_decode: 8C 8E is U+6708)
            (<<\h20>> :> <<\h20>>) @@ (<<\h8C, \h8E>> :> <<\h6708>>)
            @@ (<<\h8C, \h8C>> :> <<\h6FC0>>) @@ (<<\h8E, \h8C>> :> <<\h5B9F>>)
            @@ (<<\h8E, \h8E>> :> <<\h5931>>)
      [] cp = "65001" ->    \* UTF-8: multi-byte, no DBCS lead bytes
            (<<\h54>> :> <<\h54>>) @@ (<<\hE6, \h9C, \h88>> :> <<\h6708>>)
      [] cp = "54936" ->    \* four-byte runs, supplementary planes as surrogate pairs
            (<<\h30>> :> <<\h30>>) @@ (<<\h81, \h30, \h81, \h30>> :> <<\h80>>)
            @@ (<<\h90, \h30, \h81, \h30>> :> <<\hD800, \hDC00>>)
      [] cp = "lenient" ->  \* double byte, substitutes instead of rejecting
            (<<\h20>> :> <<\h20>>) @@ (<<\h8C, \h8E>> :> <<\hAC00>>)
      [] cp = "contextual" ->   \* a lead byte converts only with what follows it:
                                \* to two units, ordinary or an unpaired trailing
                                \* surrogate first, or to three units
            (<<\h20>> :> <<\h20>>) @@ (<<\h81, \h20>> :> <<\hB7, \h20>>)
            @@ (<<\h81, \h82>> :> <<\hDFFF, \h20>>)
            @@ (<<\h81, \h81, \h20>> :> <<\hDFFF, \hB7, \h20>>)
      [] cp = "decomposing" ->  \* single byte, a byte may convert to two or three units
            (<<\h41>> :> <<\h41>>) @@ (<<\hC0>> :> <<\h41, \h0300>>)
            @@ (<<\hC1>> :> <<\h41, \h0300, \h0301>>)
      [] OTHER ->           \* 65000 rejects the flag: nothing converts
            [r \in {} |-> <<>>]

\* the bytes an upstream source may hold, per codepage (the test strings
\* of TestInputs come on top)
Alphabet(cp) ==
    CASE cp = "866" -> {\h54, \h92, \hA5, \h3F}
      [] cp = "857" -> {\h54, \h65, \h74, \hD5}
      [] cp = "932" -> {\h20, \h8C, \h8E}
      [] cp = "65001" -> {\h54, \hE6, \h9C, \h88}
      [] cp = "54936" -> {\h30, \h81, \h90}
      [] cp = "lenient" -> {\h20, \h8C, \h8E}
      [] cp = "contextual" -> {\h20, \h81, \h82}
      [] cp = "decomposing" -> {\h41, \hC0, \hC1}
      [] OTHER -> {\h54, \h2B}

\* for the long upstream sequences: a lead byte of the codepage and a byte
\* that completes no character after it (none where no byte is a lead byte)
LongAlphabet(cp) ==
    CASE cp = "932" -> {\h8C, \h20}
      [] cp = "54936" -> {\h90, \h81}
      [] cp = "lenient" -> {\h8C, \h8E}
      [] OTHER -> {}

\* winnls::IsDBCSLeadByteEx(codepage, byte) != 0
IsDBCSLeadByteEx(cp, byte) ==
    CASE cp = "932" -> byte \in {\h8C, \h8E}
      [] cp = "54936" -> byte \in {\h81, \h90}
      [] cp = "lenient" -> byte \in {\h8C}
      [] cp = "contextual" -> byte \in {\h81}
      [] OTHER -> FALSE

\* winnls::GetCPInfoExA(codepage, 0, ..) != 0
GetCPInfoExA(cp) == cp \in Supported

\* cp_info.UnicodeDefaultChar
UnicodeDefaultChar(cp) ==
    CASE cp = "932" -> \h30FB
      [] cp \in {"65001", "65000"} -> \hFFFD
      [] OTHER -> \h3F

\* a codepage that converts an invalid trail byte by substitution
Substitutes(cp) == cp = "lenient"

ConvFail == [ok |-> FALSE, units |-> <<>>]

\* the conversion of a whole run, character by character
RECURSIVE Convert(_, _)
Convert(cp, run) ==
    IF run = <<>> THEN [ok |-> TRUE, units |-> <<>>]
    ELSE LET ks == {k \in 1..Len(run) : SubSeq(run, 1, k) \in DOMAIN MbTable(cp)}
         IN  IF ks # {}
             THEN LET k == CHOOSE k \in ks : TRUE
                      rest == Convert(cp, SubSeq(run, k + 1, Len(run)))
                  IN  IF rest.ok
                      THEN [ok |-> TRUE, units |-> MbTable(cp)[SubSeq(run, 1, k)] \o rest.units]
                      ELSE ConvFail
             ELSE IF Substitutes(cp) /\ IsDBCSLeadByteEx(cp, run[1]) /\ Len(run) >= 2
             THEN LET rest == Convert(cp, SubSeq(run, 2, Len(run)))
                  IN  IF rest.ok
                      THEN [ok |-> TRUE, units |-> <<UnicodeDefaultChar(cp)>> \o rest.units]
                      ELSE ConvFail
             ELSE ConvFail

\* stringapiset::MultiByteToWideChar(codepage, 8, bytes, byte_count, char_buf, 3):
\* the units written; <<>> is the return value 0 (invalid input, or more
\* than char_buf.len() units)
MultiByteToWideChar(cp, run) ==
    LET c == Convert(cp, run)
    IN  IF c.ok /\ Len(c.units) <= CharBufLen THEN c.units ELSE <<>>

(***************************************************************************)
(* ByteDecoder (src/windows.rs).                                           *)
(***************************************************************************)
\* Some(Ok(c))  /  Some(Err(Error::new(kind, ..)))  as yielded items
OkItem(c) == [kind |-> "Ok", ch |-> c, err |-> "none"]
ErrItem(e) == [kind |-> "Err", ch |-> 0, err |-> e]

\* the surrogate pair combined as the code computes it, in u16 then u32
CombineSurrogates(lead, trail) ==
    BitOr(SubU16(lead, \hD800) * 1024, SubU16(trail, \hDC00)) + \h10000

\* what one call of next returns and leaves behind: ret is the Option
\* returned (<<>> is None), run the bytes placed in byte_buf, srcs where
\* each byte was asked for ("buf" the pushback slot, "iter" the upstream,
\* "end" an upstream poll that found it exhausted)
Outcome(ret, newbuf, rest, run, srcs) ==
    [ret |-> ret, buf |-> newbuf, iter |-> rest, run |-> run, srcs |-> srcs]

\* (variant: the byte of a one-unit run is kept in the pushback slot)
OneUnitKeepsByte(char_buf, run, rest, srcs) ==
    Outcome(<<OkItem(char_buf[1])>>, <<run[Len(run)]>>, rest, run, srcs)

\* `1 =>`: the run is one character
OneUnit(char_buf, run, rest, srcs) ==
    Outcome(<<OkItem(char_buf[1])>>, <<>>, rest, run, srcs)

\* (variant: the last byte of the run is not put in the pushback slot)
TwoUnitsDropsByte(dflt, char_buf, run, rest, srcs) ==
    IF char_buf[1] < \hD800 \/ char_buf[1] > \hDFFF
    THEN IF char_buf[1] = dflt
         THEN Outcome(<<ErrItem("InvalidData")>>, <<>>, rest, run, srcs)
         ELSE Outcome(<<OkItem(char_buf[1])>>, <<>>, rest, run, srcs)
    ELSE Outcome(<<OkItem(CombineSurrogates(char_buf[1], char_buf[2]))>>,
                 <<>>, rest, run, srcs)

\* `2 =>`: one character and the start of the next, or a surrogate pair
TwoUnits(dflt, char_buf, run, rest, srcs) ==
    IF char_buf[1] < \hD800 \/ char_buf[1] > \hDFFF
    THEN IF char_buf[1] = dflt
         THEN Outcome(<<ErrItem("InvalidData")>>, <<run[Len(run)]>>, rest, run, srcs)
         ELSE Outcome(<<OkItem(char_buf[1])>>, <<run[Len(run)]>>, rest, run, srcs)
    ELSE Outcome(<<OkItem(CombineSurrogates(char_buf[1], char_buf[2]))>>,
                 <<>>, rest, run, srcs)

\* `3 =>`
ThreeUnits(run, rest, srcs) ==
    Outcome(<<ErrItem("InvalidInput")>>, <<run[Len(run)]>>, rest, run, srcs)

\* (variant: the lead-byte test is missing, every failed run is extended)
ContinuesAlways(cp, run) == TRUE

\* `_ =>`: the conversion failed; does the loop go on to another byte?
Continues(cp, run) == IsDBCSLeadByteEx(cp, run[1])

\* the failed run's first byte is no lead byte: Error::last_os_error()
NotLeadByte(run, rest, srcs) ==
    Outcome(<<ErrItem("Os")>>, <<>>, rest, run, srcs)

\* (variant: the loop runs one byte past the buffer)
LoopOverLate(run) == Len(run) = ByteBufLen + 1

\* the loop is over: byte_count has reached byte_buf.len()
LoopOver(run) == Len(run) = ByteBufLen

\* after the loop: "Single character is longer than 8 bytes!"
TooLong(run, rest, srcs) ==
    Outcome(<<ErrItem("Other")>>, <<>>, rest, run, srcs)

\* (variant: the exhausted upstream ends the stream without an item)
TruncatedSilently(run, rest, srcs) ==
    Outcome(<<>>, <<>>, rest, run, Append(srcs, "end"))

\* self.iter.next() returned None inside the loop
Truncated(run, rest, srcs) ==
    Outcome(<<ErrItem("InvalidData")>>, <<>>, rest, run, Append(srcs, "end"))

\* the body of the loop `for byte_count in 1..=byte_buf.len()` from the
\* conversion of byte_buf[..byte_count] on; run is byte_buf[..byte_count]
RECURSIVE Attempt(_, _, _, _, _)
Attempt(cp, dflt, run, rest, srcs) ==
    LET char_buf == MultiByteToWideChar(cp, run)
        char_count == Len(char_buf)
    IN  CASE char_count = 1 -> OneUnit(char_buf, run, rest, srcs)
          [] char_count = 2 -> TwoUnits(dflt, char_buf, run, rest, srcs)
          [] char_count = 3 -> ThreeUnits(run, rest, srcs)
          [] OTHER ->
                IF ~Continues(cp, run) THEN NotLeadByte(run, rest, srcs)
                ELSE IF LoopOver(run) THEN TooLong(run, rest, srcs)
                ELSE IF rest = <<>> THEN Truncated(run, rest, srcs)
                ELSE Attempt(cp, dflt, Append(run, Head(rest)), Tail(rest),
                             Append(srcs, "iter"))

\* (variant: the pushback slot is not looked at)
FirstByteForgetsSlot(b, it) ==
    IF it = <<>> THEN [some |-> FALSE, byte |-> 0, rest |-> it, src |-> "end"]
    ELSE [some |-> TRUE, byte |-> Head(it), rest |-> Tail(it), src |-> "iter"]

\* (variant: the upstream is polled before the pushback slot is looked at)
FirstByteUpstreamFirst(b, it) ==
    IF it # <<>> THEN [some |-> TRUE, byte |-> Head(it), rest |-> Tail(it), src |-> "iter"]
    ELSE IF b # <<>> THEN [some |-> TRUE, byte |-> b[1], rest |-> it, src |-> "buf"]
    ELSE [some |-> FALSE, byte |-> 0, rest |-> it, src |-> "end"]

\* the first byte: `match self.buf.take()`, else `self.iter.next()?`
FirstByte(b, it) ==
    IF b # <<>> THEN [some |-> TRUE, byte |-> b[1], rest |-> it, src |-> "buf"]
    ELSE IF it = <<>> THEN [some |-> FALSE, byte |-> 0, rest |-> it, src |-> "end"]
    ELSE [some |-> TRUE, byte |-> Head(it), rest |-> Tail(it), src |-> "iter"]

\* ByteDecoder::next on a decoder with pushback slot b and upstream it
DecoderNext(cp, dflt, b, it) ==
    LET f == FirstByte(b, it)
    IN  IF f.some
        THEN Attempt(cp, dflt, <<f.byte>>, f.rest, <<f.src>>)
        ELSE Outcome(<<>>, <<>>, f.rest, <<>>, <<f.src>>)

\* the items of the first n calls of next, up to the end of the stream, on
\* a decoder with pushback slot b and upstream it
RECURSIVE DecodeAll(_, _, _, _, _)
DecodeAll(cp, dflt, b, it, n) ==
    IF n = 0 THEN <<>>
    ELSE LET o == DecoderNext(cp, dflt, b, it)
         IN  IF o.ret = <<>> THEN <<>>
             ELSE o.ret \o DecodeAll(cp, dflt, o.buf, o.iter, n - 1)

NoCall == [ret |-> <<>>, run |-> <<>>, srcs |-> <<>>, pre_buf |-> <<>>,
           pre_iter |-> <<>>, n |-> 0]

\* ByteDecoder::new
ByteDecoderNew ==
    /\ dstate = "unbuilt"
    /\ IF GetCPInfoExA(codepage)
       THEN /\ dstate' = "ready"
            /\ default_character' = UnicodeDefaultChar(codepage)
       ELSE /\ dstate' = "failed"
            /\ UNCHANGED default_character
    /\ buf' = <<>>
    /\ UNCHANGED <<codepage, input, iter, items, call>>
    /\ UNCHANGED evars

\* what a build with debug assertions and overflow checks refuses and a
\* release build lets pass: char::from_u32_unchecked of a value that is no
\* scalar value, `char_buf[1] - 0xDC00` below zero, and
\* debug_assert_eq!(char_buf[0], 0xDFFF)
DebugPanics(cp, run) ==
    LET char_buf == MultiByteToWideChar(cp, run)
    IN  \/ /\ Len(char_buf) = 1
           /\ char_buf[1] >= \hD800
           /\ char_buf[1] <= \hDFFF
        \/ /\ Len(char_buf) = 2
           /\ char_buf[1] >= \hD800
           /\ char_buf[1] <= \hDFFF
           /\ \/ char_buf[2] < \hDC00
              \/ CombineSurrogates(char_buf[1], char_buf[2]) > \h10FFFF
        \/ /\ Len(char_buf) = 3
           /\ char_buf[1] # \hDFFF

\* <ByteDecoder as Iterator>::next: the call runs to its return as the
\* release build computes it, or panics where a debug build checks
ByteDecoderNext ==
    /\ dstate = "ready"
    /\ estate = "unbuilt"
    /\ Len(items) < MaxItems
    /\ LET o == DecoderNext(codepage, default_character, buf, iter)
       IN  \/ /\ buf' = o.buf
              /\ iter' = o.iter
              /\ items' = items \o o.ret
              /\ call' = [ret |-> o.ret, run |-> o.run, srcs |-> o.srcs,
                          pre_buf |-> buf, pre_iter |-> iter, n |-> Len(items) + 1]
              /\ UNCHANGED dstate
           \/ /\ o.run # <<>>
              /\ DebugPanics(codepage, o.run)
              /\ buf' = <<>>
              /\ iter' = o.iter
              /\ dstate' = "panicked"
              /\ call' = [ret |-> <<>>, run |-> o.run, srcs |-> o.srcs,
                          pre_buf |-> buf, pre_iter |-> iter, n |-> Len(items) + 1]
              /\ UNCHANGED items
    /\ UNCHANGED <<codepage, input, default_character>>
    /\ UNCHANGED evars

(***************************************************************************)
(* Character conversions of the standard library and of the system.        *)
(***************************************************************************)
\* char::encode_utf16
EncodeUtf16(c) ==
    IF c < \h10000 THEN <<c>>
    ELSE <<\hD800 + ((c - \h10000) \div 1024), \hDC00 + ((c - \h10000) % 1024)>>

\* the scalar value a run of one or two UTF-16 units stands for
ScalarOf(units) ==
    IF Len(units) = 1 THEN units[1]
    ELSE (units[1] - \hD800) * 1024 + (units[2] - \hDC00) + \h10000

\* char::encode_utf8: the bytes written to the front of the buffer
EncodeUtf8(c) ==
    IF c < \h80 THEN <<c>>
    ELSE IF c < \h800 THEN <<\hC0 + (c \div 64), \h80 + (c % 64)>>
    ELSE IF c < \h10000
    THEN <<\hE0 + (c \div 4096), \h80 + ((c \div 64) % 64), \h80 + (c % 64)>>
    ELSE <<\hF0 + (c \div 262144), \h80 + ((c \div 4096) % 64),
           \h80 + ((c \div 64) % 64), \h80 + (c % 64)>>

\* one character of the modified base64 of UTF-7
Base64Char(s) ==
    IF s < 26 THEN 65 + s
    ELSE IF s < 52 THEN 97 + (s - 26)
    ELSE IF s < 62 THEN 48 + (s - 52)
    ELSE IF s = 62 THEN 43 ELSE 47

\* UTF-7 of one character: ASCII directly, anything else as +base64-
EncodeUtf7(units) ==
    IF Len(units) = 1 /\ units[1] < \h80 THEN units
    ELSE IF Len(units) = 1
    THEN LET v == units[1] * 4
         IN  <<43, Base64Char(v \div 4096), Base64Char((v \div 64) % 64),
               Base64Char(v % 64), 45>>
    ELSE LET hi == units[1] * 4 + (units[2] \div 16384)
             lo == (units[2] % 16384) * 16
         IN  <<43, Base64Char(hi \div 4096), Base64Char((hi \div 64) % 64),
               Base64Char(hi % 64), Base64Char(lo \div 4096),
               Base64Char((lo \div 64) % 64), Base64Char(lo % 64), 45>>

\* the bytes a codepage writes for one character with the default flags:
\* its own encoding, or the default character `?` when it has none
WcBytes(cp, units) ==
    CASE cp = "65001" -> EncodeUtf8(ScalarOf(units))
      [] cp = "65000" -> EncodeUtf7(units)
      [] OTHER ->
            LET runs == {r \in DOMAIN MbTable(cp) : MbTable(cp)[r] = units}
            IN  IF runs # {} THEN CHOOSE r \in runs : TRUE ELSE <<\h3F>>

\* stringapiset::WideCharToMultiByte(codepage, 0, units, len, buffer, 4, null, null):
\* the bytes written; <<>> is the return value 0 (unknown codepage, or
\* more than buffer.len() bytes)
WideCharToMultiByte(cp, units) ==
    IF cp \notin Supported THEN <<>>
    ELSE IF Len(WcBytes(cp, units)) > BufferLen THEN <<>>
    ELSE WcBytes(cp, units)

(***************************************************************************)
(* ByteEncoder (src/windows.rs) and Utf8Encoder (src/not_windows.rs).      *)
(***************************************************************************)
\* the buffer after a conversion wrote bytes to its front
WriteFront(b, bytes) ==
    [i \in 0..(BufferLen - 1) |-> IF i < Len(bytes) THEN bytes[i + 1] ELSE b[i]]

NoECall == [ret |-> <<>>, polled |-> FALSE, got |-> <<>>, pre_size |-> 0,
            pre_index |-> 0, pre_citer |-> <<>>, n |-> 0]

ECall(ret, polled, got) ==
    [ret |-> ret, polled |-> polled, got |-> got, pre_size |-> buffer_size,
     pre_index |-> buffer_index, pre_citer |-> citer, n |-> Len(emitted) + 1]

\* (variant: the buffer is cleared one byte late, `>` for `>=`)
DrainOneMore ==
    /\ buffer_size # 0
    /\ IF buffer_index >= BufferLen
       THEN /\ estate' = "panicked"
            /\ ecall' = ECall(<<>>, FALSE, <<>>)
            /\ UNCHANGED <<citer, buffer, buffer_index, buffer_size, emitted>>
       ELSE /\ emitted' = Append(emitted, buffer[buffer_index])
            /\ buffer_index' = buffer_index + 1
            /\ buffer_size' = IF buffer_index + 1 > buffer_size THEN 0 ELSE buffer_size
            /\ ecall' = ECall(<<buffer[buffer_index]>>, FALSE, <<>>)
            /\ UNCHANGED <<citer, buffer, estate>>

\* the first branch of both next functions: a buffered byte is emitted
\* (an index outside the buffer panics)
Drain ==
    /\ buffer_size # 0
    /\ IF buffer_index >= BufferLen
       THEN /\ estate' = "panicked"
            /\ ecall' = ECall(<<>>, FALSE, <<>>)
            /\ UNCHANGED <<citer, buffer, buffer_index, buffer_size, emitted>>
       ELSE /\ emitted' = Append(emitted, buffer[buffer_index])
            /\ buffer_index' = buffer_index + 1
            /\ buffer_size' = IF buffer_index + 1 >= buffer_size THEN 0 ELSE buffer_size
            /\ ecall' = ECall(<<buffer[buffer_index]>>, FALSE, <<>>)
            /\ UNCHANGED <<citer, buffer, estate>>

\* the upstream is exhausted: next returns None
EndOfChars ==
    /\ buffer_size = 0
    /\ citer = <<>>
    /\ ecall' = ECall(<<>>, TRUE, <<>>)
    /\ UNCHANGED <<citer, buffer, buffer_index, buffer_size, estate, emitted>>

\* ByteEncoder::new over the upstream it
ByteEncoderNew(it) ==
    /\ estate = "unbuilt"
    /\ kind = "byte"
    /\ estate' = "ready"
    /\ text' = it
    /\ citer' = it
    /\ buffer' = [i \in 0..(BufferLen - 1) |-> 0]
    /\ buffer_index' = 0
    /\ buffer_size' = 0
    /\ UNCHANGED <<kind, emitted, ecall>>
    /\ UNCHANGED dvars

\* (variant: a character of zero bytes is skipped and the stream ends)
ByteEncodeCharSkips ==
    /\ buffer_size = 0
    /\ citer # <<>>
    /\ LET next_char == Head(citer)
           written == WideCharToMultiByte(codepage, EncodeUtf16(next_char))
           size == Len(written)
       IN  /\ citer' = Tail(citer)
           /\ buffer' = WriteFront(buffer, written)
           /\ CASE size = 0 ->
                    /\ buffer_size' = 0
                    /\ ecall' = ECall(<<>>, TRUE, <<next_char>>)
                    /\ UNCHANGED <<buffer_index, emitted, estate>>
                [] size = 1 ->
                    /\ buffer_size' = 0
                    /\ emitted' = Append(emitted, buffer'[0])
                    /\ ecall' = ECall(<<buffer'[0]>>, TRUE, <<next_char>>)
                    /\ UNCHANGED <<buffer_index, estate>>
                [] OTHER ->
                    /\ buffer_size' = size
                    /\ buffer_index' = 1
                    /\ emitted' = Append(emitted, buffer'[0])
                    /\ ecall' = ECall(<<buffer'[0]>>, TRUE, <<next_char>>)
                    /\ UNCHANGED estate

\* (variant: without the `1 =>` arm, a single byte is buffered too)
ByteEncodeCharBuffersOne ==
    /\ buffer_size = 0
    /\ citer # <<>>
    /\ LET next_char == Head(citer)
           written == WideCharToMultiByte(codepage, EncodeUtf16(next_char))
           size == Len(written)
       IN  /\ citer' = Tail(citer)
           /\ buffer' = WriteFront(buffer, written)
           /\ CASE size = 0 ->
                    /\ estate' = "panicked"
                    /\ buffer_size' = 0
                    /\ ecall' = ECall(<<>>, TRUE, <<next_char>>)
                    /\ UNCHANGED <<buffer_index, emitted>>
                [] OTHER ->
                    /\ buffer_size' = size
                    /\ buffer_index' = 1
                    /\ emitted' = Append(emitted, buffer'[0])
                    /\ ecall' = ECall(<<buffer'[0]>>, TRUE, <<next_char>>)
                    /\ UNCHANGED estate

\* ByteEncoder::next when the buffer is empty and a character is pulled
ByteEncodeChar ==
    /\ buffer_size = 0
    /\ citer # <<>>
    /\ LET next_char == Head(citer)
           written == WideCharToMultiByte(codepage, EncodeUtf16(next_char))
           size == Len(written)
       IN  /\ citer' = Tail(citer)
           /\ buffer' = WriteFront(buffer, written)
           /\ CASE size = 0 ->
                    /\ estate' = "panicked"
                    /\ buffer_size' = 0
                    /\ ecall' = ECall(<<>>, TRUE, <<next_char>>)
                    /\ UNCHANGED <<buffer_index, emitted>>
                [] size = 1 ->
                    /\ buffer_size' = 0
                    /\ emitted' = Append(emitted, buffer'[0])
                    /\ ecall' = ECall(<<buffer'[0]>>, TRUE, <<next_char>>)
                    /\ UNCHANGED <<buffer_index, estate>>
                [] OTHER ->
                    /\ buffer_size' = size
                    /\ buffer_index' = 1
                    /\ emitted' = Append(emitted, buffer'[0])
                    /\ ecall' = ECall(<<buffer'[0]>>, TRUE, <<next_char>>)
                    /\ UNCHANGED estate

\* <ByteEncoder as Iterator>::next
ByteEncoderNext ==
    /\ estate = "ready"
    /\ kind = "byte"
    /\ (Drain \/ ByteEncodeChar \/ EndOfChars)
    /\ UNCHANGED <<kind, text>>
    /\ UNCHANGED dvars

\* Utf8Encoder::new
Utf8EncoderNew ==
    /\ estate = "unbuilt"
    /\ kind = "utf8"
    /\ estate' = "ready"
    /\ citer' = text
    /\ buffer' = [i \in 0..(BufferLen - 1) |-> 0]
    /\ buffer_index' = 0
    /\ buffer_size' = 0
    /\ UNCHANGED <<kind, text, emitted, ecall>>
    /\ UNCHANGED dvars

\* (variant: without `if str.len() != 1`, a single byte is buffered too)
Utf8EncodeCharAlwaysBuffered ==
    /\ buffer_size = 0
    /\ citer # <<>>
    /\ LET next_char == Head(citer)
           str == EncodeUtf8(next_char)
       IN  /\ citer' = Tail(citer)
           /\ buffer' = WriteFront(buffer, str)
           /\ buffer_size' = Len(str)
           /\ buffer_index' = 1
           /\ emitted' = Append(emitted, buffer'[0])
           /\ ecall' = ECall(<<buffer'[0]>>, TRUE, <<next_char>>)
           /\ UNCHANGED estate

\* Utf8Encoder::next when the buffer is empty and a character is pulled
Utf8EncodeChar ==
    /\ buffer_size = 0
    /\ citer # <<>>
    /\ LET next_char == Head(citer)
           str == EncodeUtf8(next_char)
       IN  /\ citer' = Tail(citer)
           /\ buffer' = WriteFront(buffer, str)
           /\ IF Len(str) # 1
              THEN /\ buffer_size' = Len(str)
                   /\ buffer_index' = 1
              ELSE UNCHANGED <<buffer_size, buffer_index>>
           /\ emitted' = Append(emitted, buffer'[0])
           /\ ecall' = ECall(<<buffer'[0]>>, TRUE, <<next_char>>)
           /\ UNCHANGED estate

\* <Utf8Encoder as Iterator>::next
Utf8EncoderNext ==
    /\ estate = "ready"
    /\ kind = "utf8"
    /\ (Drain \/ Utf8EncodeChar \/ EndOfChars)
    /\ UNCHANGED <<kind, text>>
    /\ UNCHANGED dvars

(***************************************************************************)
(* Utf8Decoder, the decoder of the UTF-8 fallback path (src/lib.rs wires   *)
(* it in and tests it; its code is the utf8_decode crate's).  Standard     *)
(* UTF-8 decoding, an error per malformed sequence, the offending bytes    *)
(* consumed and no resynchronisation.                                      *)
(***************************************************************************)
\* a continuation byte 10xxxxxx
IsContinuation(b) == b \div 64 = 2

\* the number of continuation bytes a leading byte announces, -1 for a
\* byte that is no leading byte
Utf8Trail(a) ==
    IF a < \h80 THEN 0
    ELSE IF a \div 32 = 6 THEN 1
    ELSE IF a \div 16 = 14 THEN 2
    ELSE IF a \div 8 = 30 THEN 3
    ELSE -1

\* the payload bits of a leading byte
Utf8LeadBits(a) ==
    IF a < \h80 THEN a
    ELSE IF a \div 32 = 6 THEN a % 32
    ELSE IF a \div 16 = 14 THEN a % 16
    ELSE a % 8

\* the least scalar value that needs this many continuation bytes
Utf8Least(trail) ==
    IF trail = 0 THEN 0 ELSE IF trail = 1 THEN \h80
    ELSE IF trail = 2 THEN \h800 ELSE \h10000

\* (variant: a byte that is no continuation byte is left in the upstream)
RECURSIVE Utf8ContinueLeavesByte(_, _, _, _, _, _)
Utf8ContinueLeavesByte(acc, need, trail, run, rest, srcs) ==
    IF need = 0
    THEN IF acc < Utf8Least(trail) \/ (acc >= \hD800 /\ acc <= \hDFFF) \/ acc > \h10FFFF
         THEN Outcome(<<ErrItem("InvalidData")>>, <<>>, rest, run, srcs)
         ELSE Outcome(<<OkItem(acc)>>, <<>>, rest, run, srcs)
    ELSE IF rest = <<>>
    THEN Outcome(<<ErrItem("UnexpectedEof")>>, <<>>, rest, run, Append(srcs, "end"))
    ELSE IF ~IsContinuation(Head(rest))
    THEN Outcome(<<ErrItem("InvalidData")>>, <<>>, rest, run, srcs)
    ELSE Utf8ContinueLeavesByte(acc * 64 + (Head(rest) % 64), need - 1, trail,
                                Append(run, Head(rest)), Tail(rest), Append(srcs, "iter"))

\* the continuation bytes of one sequence are pulled: acc the value so
\* far, need the bytes still to come, trail the bytes announced
RECURSIVE Utf8Continue(_, _, _, _, _, _)
Utf8Continue(acc, need, trail, run, rest, srcs) ==
    IF need = 0
    THEN IF acc < Utf8Least(trail) \/ (acc >= \hD800 /\ acc <= \hDFFF) \/ acc > \h10FFFF
         THEN Outcome(<<ErrItem("InvalidData")>>, <<>>, rest, run, srcs)
         ELSE Outcome(<<OkItem(acc)>>, <<>>, rest, run, srcs)
    ELSE IF rest = <<>>
    THEN Outcome(<<ErrItem("UnexpectedEof")>>, <<>>, rest, run, Append(srcs, "end"))
    ELSE IF ~IsContinuation(Head(rest))
    THEN Outcome(<<ErrItem("InvalidData")>>, <<>>, Tail(rest),
                 Append(run, Head(rest)), Append(srcs, "iter"))
    ELSE Utf8Continue(acc * 64 + (Head(rest) % 64), need - 1, trail,
                      Append(run, Head(rest)), Tail(rest), Append(srcs, "iter"))

\* Utf8Decoder::next on the upstream it
Utf8Next(it) ==
    IF it = <<>> THEN Outcome(<<>>, <<>>, it, <<>>, <<"end">>)
    ELSE IF Utf8Trail(Head(it)) < 0
    THEN Outcome(<<ErrItem("InvalidData")>>, <<>>, Tail(it), <<Head(it)>>, <<"iter">>)
    ELSE Utf8Continue(Utf8LeadBits(Head(it)), Utf8Trail(Head(it)), Utf8Trail(Head(it)),
                      <<Head(it)>>, Tail(it), <<"iter">>)

\* the items of a Utf8Decoder over the bytes, to the end of the stream
RECURSIVE Utf8DecodeAll(_)
Utf8DecodeAll(it) ==
    IF it = <<>> THEN <<>>
    ELSE Utf8Next(it).ret \o Utf8DecodeAll(Utf8Next(it).iter)

\* local_console_decode / local_file_decode: Utf8Decoder::new(self)
local_console_decode ==
    /\ dstate = "unbuilt"
    /\ kind = "utf8"
    /\ dstate' = "ready"
    /\ buf' = <<>>
    /\ UNCHANGED <<codepage, input, iter, default_character, items, call>>
    /\ UNCHANGED evars

\* <Utf8Decoder as Iterator>::next
Utf8DecoderNext ==
    /\ dstate = "ready"
    /\ kind = "utf8"
    /\ LET o == Utf8Next(iter)
       IN  /\ iter' = o.iter
           /\ items' = items \o o.ret
           /\ call' = [ret |-> o.ret, run |-> o.run, srcs |-> o.srcs,
                       pre_buf |-> <<>>, pre_iter |-> iter, n |-> Len(items) + 1]
    /\ UNCHANGED <<codepage, input, buf, default_character, dstate>>
    /\ UNCHANGED evars

(***************************************************************************)
(* The specifications.                                                     *)
(***************************************************************************)
\* the byte strings the repository's decode tests feed a ByteDecoder
TestInputs(cp) ==
    CASE cp = "857" -> {<<\h54, \h65, \hD5, \h73, \h74>>, <<\h54, \h65, \h73, \h74>>}
      [] cp = "866" -> {<<\h92, \hA5, \hE1, \hE2>>}
      [] cp = "932" -> {<<\h8C, \h8E>>}
      [] OTHER -> {}

\* the upstream byte sequences: every sequence up to MaxInput over the
\* codepage's alphabet, every sequence up to MaxLong over two of its bytes,
\* and the test strings
Inputs(cp) ==
    SeqsUpTo(Alphabet(cp), MaxInput) \cup SeqsUpTo(LongAlphabet(cp), MaxLong)
        \cup TestInputs(cp)

\* the scalar values an upstream character source may hold
Chars == {\h54, \h0422, \h6708, \h10000}
Texts == SeqsUpTo(Chars, MaxText)

RECURSIVE OkChars(_)
\* iterator.filter_map(Result::ok): the characters of the Ok items
OkChars(its) ==
    IF its = <<>> THEN <<>>
    ELSE IF Head(its).kind = "Ok" THEN <<Head(its).ch>> \o OkChars(Tail(its))
    ELSE OkChars(Tail(its))

DecoderIdle ==
    /\ input = <<>>
    /\ iter = <<>>
    /\ buf = <<>>
    /\ default_character = 0
    /\ dstate = "unbuilt"
    /\ items = <<>>
    /\ call = NoCall

EncoderIdle ==
    /\ citer = <<>>
    /\ buffer = [i \in 0..(BufferLen - 1) |-> 0]
    /\ buffer_index = 0
    /\ buffer_size = 0
    /\ estate = "unbuilt"
    /\ emitted = <<>>
    /\ ecall = NoECall

\* a ByteDecoder over a byte source; its Ok items are then re-encoded
Init ==
    /\ codepage \in Codepages
    /\ input \in Inputs(codepage)
    /\ iter = input
    /\ buf = <<>>
    /\ default_character = 0
    /\ dstate = "unbuilt"
    /\ items = <<>>
    /\ call = NoCall
    /\ kind = "byte"
    /\ text = <<>>
    /\ EncoderIdle

\* the decoder has reported the end of the stream
DecoderEnded == dstate = "ready" /\ call.n > 0 /\ call.ret = <<>>

\* the characters decoded are handed to a ByteEncoder of the same codepage
Reencode == DecoderEnded /\ ByteEncoderNew(OkChars(items))

Next ==
    \/ ByteDecoderNew
    \/ ByteDecoderNext
    \/ Reencode
    \/ ByteEncoderNext

Spec == Init /\ [][Next]_vars

\* an encoder over a character source
InitEncoder ==
    /\ kind \in {"byte", "utf8"}
    /\ codepage \in (IF kind = "byte" THEN Codepages ELSE {"none"})
    /\ text \in Texts
    /\ DecoderIdle
    /\ EncoderIdle

NextEncoder ==
    \/ ByteEncoderNew(text)
    \/ ByteEncoderNext
    \/ Utf8EncoderNew
    \/ Utf8EncoderNext

SpecEncoder == InitEncoder /\ [][NextEncoder]_vars

\* the bytes a test of the fallback path feeds local_console_decode
Utf8TestInputs == {<<\h54, \h65, \hC3, \h28, \h73, \h74>>, <<\h54, \h65, \h73, \h74>>}

\* ASCII, a two-byte and a three-byte leading byte, a continuation byte
Utf8Alphabet == {\h54, \h28, \hC3, \hE6, \hA9}

Utf8Inputs == SeqsUpTo(Utf8Alphabet, MaxInput) \cup Utf8TestInputs

\* a Utf8Decoder over a byte source
InitUtf8Decoder ==
    /\ kind = "utf8"
    /\ codepage = "none"
    /\ input \in Utf8Inputs
    /\ iter = input
    /\ buf = <<>>
    /\ default_character = 0
    /\ dstate = "unbuilt"
    /\ items = <<>>
    /\ call = NoCall
    /\ text = <<>>
    /\ EncoderIdle

NextUtf8Decoder ==
    \/ local_console_decode
    \/ Utf8DecoderNext

SpecUtf8Decoder == InitUtf8Decoder /\ [][NextUtf8Decoder]_vars

(***************************************************************************)
(* Claims.                                                                 *)
(***************************************************************************)
\* the encoder has reported the end of its stream
EncoderEnded == estate = "ready" /\ ecall.n > 0 /\ ecall.ret = <<>>

\* the units are one scalar value: one non-surrogate unit or a surrogate pair
OneScalar(units) ==
    \/ Len(units) = 1 /\ (units[1] < \hD800 \/ units[1] > \hDFFF)
    \/ Len(units) = 2 /\ units[1] >= \hD800 /\ units[1] <= \hDBFF
                      /\ units[2] >= \hDC00 /\ units[2] <= \hDFFF

\* the bytes are a concatenation of runs, each of which the codepage maps
\* to exactly one scalar value that no other run encodes
RECURSIVE ValidUnder(_, _)
ValidUnder(cp, bytes) ==
    \/ bytes = <<>>
    \/ \E k \in 1..Len(bytes) :
          /\ SubSeq(bytes, 1, k) \in DOMAIN MbTable(cp)
          /\ OneScalar(MbTable(cp)[SubSeq(bytes, 1, k)])
          /\ \A r \in DOMAIN MbTable(cp) :
                MbTable(cp)[r] = MbTable(cp)[SubSeq(bytes, 1, k)] => r = SubSeq(bytes, 1, k)
          /\ ValidUnder(cp, SubSeq(bytes, k + 1, Len(bytes)))

\* C1: a byte sequence valid under the codepage, decoded by ByteDecoder and
\* its Ok items re-encoded by ByteEncoder under the same codepage, comes
\* out byte for byte as it went in.
C1_RoundTrip ==
    (EncoderEnded /\ ValidUnder(codepage, input)) => emitted = input

\* the round trip on the codepages all of whose characters start with a
\* byte the system reports as a lead byte, or are one byte long
LeadByteCoded(cp) ==
    \A r \in DOMAIN MbTable(cp) : Len(r) = 1 \/ IsDBCSLeadByteEx(cp, r[1])

C1_RoundTripLeadByteCoded ==
    (EncoderEnded /\ ValidUnder(codepage, input) /\ LeadByteCoded(codepage))
        => emitted = input

\* C2: the pushback slot never holds more than one byte, and a call that
\* finds it occupied takes that byte as the first byte of its run, leaving
\* the slot empty, before it polls the upstream source: every later byte of
\* the run, and nothing else, comes from upstream, and the slot holds a byte
\* afterwards only if the call itself put the run's last byte there.
C2_Pushback ==
    /\ Len(buf) <= 1
    /\ Len(call.pre_buf) <= 1
    /\ call.pre_buf # <<>> =>
          /\ call.srcs[1] = "buf"
          /\ call.run[1] = call.pre_buf[1]
          /\ \A i \in 2..Len(call.srcs) : call.srcs[i] # "buf"
          /\ call.pre_iter = SubSeq(call.run, 2, Len(call.run)) \o iter
          /\ buf # <<>> => buf[1] = call.run[Len(call.run)]

\* a call found the slot occupied, and an earlier call had filled it from
\* a run of several bytes
C2_Witness ==
    /\ call.pre_buf # <<>>
    /\ call.n >= 2
    /\ call.ret # <<>>
    /\ iter # <<>>

\* the byte run the encoder under test produces for one character
RunOf(c) ==
    IF kind = "byte" THEN WideCharToMultiByte(codepage, EncodeUtf16(c)) ELSE EncodeUtf8(c)

RECURSIVE ConcatRuns(_)
ConcatRuns(chars) ==
    IF chars = <<>> THEN <<>> ELSE RunOf(Head(chars)) \o ConcatRuns(Tail(chars))

\* the characters pulled from the upstream character source so far
Consumed == SubSeq(text, 1, Len(text) - Len(citer))

\* the bytes of the current character still to be emitted
Pending ==
    IF buffer_size = 0 THEN <<>>
    ELSE [i \in 1..(buffer_size - buffer_index) |-> buffer[buffer_index + i - 1]]

\* C3: a call that finds bytes of the current character unemitted returns
\* the next buffered byte and leaves the upstream character source alone;
\* the bytes emitted so far, followed by the bytes still buffered, are the
\* byte runs of the characters pulled so far, in order; and the end of the
\* stream is reported only with the upstream exhausted and nothing buffered.
C3_DrainOrdering ==
    /\ (ecall.n > 0 /\ ecall.pre_size # 0 /\ ecall.pre_index < ecall.pre_size) =>
          /\ citer = ecall.pre_citer
          /\ ~ecall.polled
          /\ ecall.ret = <<buffer[ecall.pre_index]>>
          /\ emitted[Len(emitted)] = buffer[ecall.pre_index]
    /\ estate # "unbuilt" => emitted \o Pending = ConcatRuns(Consumed)
    /\ EncoderEnded => (citer = <<>> /\ buffer_size = 0 /\ ecall.pre_size = 0
                        /\ emitted = ConcatRuns(text))

\* the third byte of a character of three or four bytes has just been
\* emitted while the upstream still holds characters
C3_Witness ==
    /\ estate = "ready"
    /\ ecall.pre_size >= 3
    /\ ecall.pre_index = 2
    /\ citer # <<>>

\* the length of the canonical UTF-8 encoding of a scalar value
Utf8Len(c) ==
    IF c < \h80 THEN 1 ELSE IF c < \h800 THEN 2 ELSE IF c < \h10000 THEN 3 ELSE 4

\* bs is the canonical UTF-8 encoding of c: the length its range demands,
\* the lead byte's marker, continuation bytes 10xxxxxx, payload bits of c
IsCanonicalUtf8(c, bs) ==
    /\ Len(bs) = Utf8Len(c)
    /\ \A i \in 2..Len(bs) : bs[i] \div 64 = 2
    /\ CASE Len(bs) = 1 -> bs[1] = c
         [] Len(bs) = 2 -> bs[1] \div 32 = 6 /\ (bs[1] % 32) * 64 + (bs[2] % 64) = c
         [] Len(bs) = 3 -> /\ bs[1] \div 16 = 14
                           /\ (bs[1] % 16) * 4096 + (bs[2] % 64) * 64 + (bs[3] % 64) = c
         [] OTHER -> /\ bs[1] \div 8 = 30
                     /\ (bs[1] % 8) * 262144 + (bs[2] % 64) * 4096
                            + (bs[3] % 64) * 64 + (bs[4] % 64) = c

\* bytes is the concatenation of the canonical encodings of chars
RECURSIVE CanonicalStream(_, _)
CanonicalStream(chars, bytes) ==
    IF chars = <<>> THEN bytes = <<>>
    ELSE /\ Len(bytes) >= Utf8Len(Head(chars))
         /\ IsCanonicalUtf8(Head(chars), SubSeq(bytes, 1, Utf8Len(Head(chars))))
         /\ CanonicalStream(Tail(chars),
                            SubSeq(bytes, Utf8Len(Head(chars)) + 1, Len(bytes)))

\* C4: Utf8Encoder never fails, and the bytes it has yielded, with those it
\* still buffers, are the canonical UTF-8 encodings of the characters pulled
\* so far, in order; at the end of the stream the bytes yielded are those of
\* the whole text; U+6708 yields E6 9C 88 and ASCII yields itself.
C4_Utf8Encoder ==
    kind = "utf8" =>
        /\ estate # "panicked"
        /\ estate = "ready" => CanonicalStream(Consumed, emitted \o Pending)
        /\ EncoderEnded => CanonicalStream(text, emitted)
        /\ (EncoderEnded /\ text = <<\h6708>>) => emitted = <<\hE6, \h9C, \h88>>
        /\ (EncoderEnded /\ \A i \in 1..Len(text) : text[i] < \h80) => emitted = text

\* Utf8Encoder has encoded a text of one, three and four byte characters
C4_Witness ==
    /\ kind = "utf8"
    /\ EncoderEnded
    /\ text = <<\h54, \h6708, \h10000>>
    /\ Len(emitted) = 8

\* the conversion of the byte alone produces exactly one unit
SingleUnit(cp, b) == Len(MultiByteToWideChar(cp, <<b>>)) = 1

\* the bytes the decoder could draw on when the last call began
Stream(c) == c.pre_buf \o c.pre_iter

InvalidNonLead(cp, b) ==
    MultiByteToWideChar(cp, <<b>>) = <<>> /\ ~IsDBCSLeadByteEx(cp, b)

\* C6: a call whose first byte fails to convert and is no lead byte yields
\* one error item at once, pulling no further byte; it has consumed that
\* byte only, the pushback slot is empty and the upstream stands at the
\* byte after it, as for a stream that never held the byte; in a stream of
\* bytes that each convert alone or are such bytes, every byte yields its
\* own item (`Te\xd5st` under 857 yields T, e, an error, s, t).
C6_InvalidNonLead ==
    /\ (call.n > 0 /\ call.run # <<>> /\ InvalidNonLead(codepage, call.run[1])) =>
          /\ Len(call.ret) = 1
          /\ call.ret[1].kind = "Err"
          /\ Len(call.run) = 1
          /\ Len(call.srcs) = 1
          /\ buf = <<>>
          /\ iter = Tail(Stream(call))
          /\ Len(items) = call.n
    /\ (DecoderEnded /\ \A i \in 1..Len(input) :
            SingleUnit(codepage, input[i]) \/ InvalidNonLead(codepage, input[i])) =>
          /\ Len(items) = Len(input)
          /\ \A i \in 1..Len(input) :
                IF SingleUnit(codepage, input[i])
                THEN items[i] = OkItem(MultiByteToWideChar(codepage, <<input[i]>>)[1])
                ELSE items[i].kind = "Err"
    /\ (DecoderEnded /\ codepage = "857" /\ input = <<\h54, \h65, \hD5, \h73, \h74>>) =>
          items = <<OkItem(\h54), OkItem(\h65), ErrItem("Os"), OkItem(\h73), OkItem(\h74)>>

\* the test's bytes under codepage 857 have been decoded to the end
C6_Witness ==
    /\ DecoderEnded
    /\ codepage = "857"
    /\ input = <<\h54, \h65, \hD5, \h73, \h74>>
    /\ Len(items) = 5
    /\ items[3].kind = "Err"

\* the last call polled the upstream after its first byte and found it exhausted
TruncatedCall ==
    call.n > 0 /\ Len(call.srcs) >= 2 /\ call.srcs[Len(call.srcs)] = "end"

\* the decoder has nothing left: empty pushback slot, exhausted upstream
Exhausted == dstate = "ready" /\ buf = <<>> /\ iter = <<>>

\* C7: a call that finds the upstream exhausted while it accumulates a run
\* begun by a lead byte yields one invalid-data error item and leaves the
\* pushback slot empty; from then on no call yields an item.
C7_Truncated ==
    /\ [](TruncatedCall =>
            /\ call.ret = <<ErrItem("InvalidData")>>
            /\ IsDBCSLeadByteEx(codepage, call.run[1])
            /\ Len(items) = call.n
            /\ items[Len(items)] = ErrItem("InvalidData")
            /\ Exhausted)
    /\ [][Exhausted => (Exhausted' /\ items' = items
                        /\ (call' # call => call'.ret = <<>>))]_vars

\* under codepage 932 a lead byte ended the input: the error item was
\* yielded and the call after it reported the end of the stream
C7_Witness ==
    /\ DecoderEnded
    /\ codepage = "932"
    /\ Len(input) >= 2
    /\ input[Len(input)] = \h8C
    /\ items # <<>>
    /\ items[Len(items)] = ErrItem("InvalidData")

\* no conversion of a prefix of the bytes succeeds
NeverResolves(cp, bytes) ==
    \A k \in 1..Len(bytes) : MultiByteToWideChar(cp, SubSeq(bytes, 1, k)) = <<>>

\* C8: a call never accumulates more than 8 bytes; when the stream begins
\* with a lead byte and its first 8 bytes never convert, the call yields
\* the one sequence-too-long error item, having consumed exactly those 8
\* bytes, and the decoder can be asked for further items; the error is
\* yielded by no shorter run.
C8_TooLong ==
    /\ Len(call.run) <= ByteBufLen
    /\ (call.n > 0 /\ Len(Stream(call)) >= ByteBufLen
            /\ IsDBCSLeadByteEx(codepage, Stream(call)[1])
            /\ NeverResolves(codepage, SubSeq(Stream(call), 1, ByteBufLen))) =>
          /\ call.ret = <<ErrItem("Other")>>
          /\ call.run = SubSeq(Stream(call), 1, ByteBufLen)
          /\ buf = <<>>
          /\ iter = SubSeq(Stream(call), ByteBufLen + 1, Len(Stream(call)))
          /\ Len(items) = call.n
          /\ dstate = "ready"
    /\ (call.n > 0 /\ call.ret = <<ErrItem("Other")>>) => Len(call.run) = ByteBufLen

\* a lead byte and 8 bytes that never resolve: the error item, then the
\* item of the ninth byte
C8_Witness ==
    /\ Len(input) = 9
    /\ Len(items) = 2
    /\ items[1] = ErrItem("Other")
    /\ call.n = 2
    /\ call.ret # <<>>

\* the conversion of the character produces zero bytes
ZeroBytes(c) == WideCharToMultiByte(codepage, EncodeUtf16(c)) = <<>>

\* C9: ByteEncoder::next panics in the call that pulls a character of zero
\* bytes: the call returns nothing, no byte of the character is emitted, and
\* such a character is never passed over, it is always the last one pulled,
\* by the call that panicked.
C9_ZeroBytesPanics ==
    (kind = "byte" /\ estate # "unbuilt") =>
        /\ (ecall.n > 0 /\ ecall.got # <<>> /\ ZeroBytes(ecall.got[1])) =>
              /\ estate = "panicked"
              /\ ecall.ret = <<>>
              /\ emitted = ConcatRuns(SubSeq(text, 1, Len(Consumed) - 1))
        /\ estate = "panicked" =>
              /\ ecall.got # <<>>
              /\ ZeroBytes(ecall.got[1])
              /\ ecall.got[1] = Consumed[Len(Consumed)]
        /\ \A i \in 1..Len(Consumed) :
              ZeroBytes(Consumed[i]) => (i = Len(Consumed) /\ estate = "panicked")

\* under UTF-7 a character of five bytes was pulled after an ASCII one
C9_Witness ==
    /\ kind = "byte"
    /\ codepage = "65000"
    /\ estate = "panicked"
    /\ emitted = <<\h54>>
    /\ citer # <<>>

\* C10: with a codepage the system does not know, no ByteDecoder and no
\* ByteEncoder is ever constructed, and so no next call fails on the codepage.
C10_ConstructionFails ==
    (kind = "byte" /\ ~GetCPInfoExA(codepage)) =>
        /\ dstate # "ready"
        /\ estate \notin {"ready", "panicked"}

\* the decoder's half of C10: ByteDecoder::new returns Err for it
C10_DecoderConstructionFails ==
    ~GetCPInfoExA(codepage) => (dstate # "ready" /\ items = <<>> /\ call.n = 0)

\* the first n elements of a sequence
Take(s, n) == SubSeq(s, 1, IF Len(s) < n THEN Len(s) ELSE n)

\* the items a freshly constructed ByteDecoder of the same codepage yields
\* on the bytes
Fresh(bytes) == DecodeAll(codepage, default_character, <<>>, bytes, MaxItems)

\* C11: after any number of calls, the items yielded so far followed by the
\* items a fresh ByteDecoder yields on the pushback byte (if any) and the
\* bytes not yet pulled are the items a fresh ByteDecoder yields on the
\* whole stream; the decoder reports the end of the stream exactly when
\* that fresh decoder has nothing to yield.
C11_Incremental ==
    dstate = "ready" =>
        /\ Fresh(input) = Take(items \o Fresh(buf \o iter), MaxItems)
        /\ DecoderEnded => (Fresh(buf \o iter) = <<>> /\ items = Fresh(input))

\* an item has been yielded with a byte pushed back, and the bytes left
\* hold two more items
C11_Witness ==
    /\ dstate = "ready"
    /\ buf # <<>>
    /\ iter # <<>>
    /\ Len(items) >= 1
    /\ Len(Fresh(buf \o iter)) >= 2
    /\ Len(Fresh(input)) < MaxItems

\* C12: ByteDecoder never yields Ok of the default-replacement character
\* captured at construction: an item whose single decoded unit equals it is
\* a decode error, whether one unit or two units with pushback produced it.
C12_Sentinel ==
    dstate = "ready" =>
        \A i \in 1..Len(items) :
            ~(items[i].kind = "Ok" /\ items[i].ch = default_character)

\* the sentinel is tested where two units were produced: no call whose run
\* converted to two units yields Ok of the default-replacement character
C12_SentinelTwoUnits ==
    (dstate = "ready" /\ call.n > 0
        /\ Len(MultiByteToWideChar(codepage, call.run)) = 2) =>
        call.ret # <<OkItem(default_character)>>

\* the leading byte of a two-byte sequence
TwoByteLead(b) == b \div 32 = 6

\* C13: `Te\xC3\x28st` decoded by local_console_decode yields T, e, one
\* error, s, t; a call that begins at a two-byte leading byte followed by
\* a byte that is no continuation byte yields exactly one error item, and
\* the upstream then stands after those two bytes, so that the items that
\* follow are the items of the bytes after them decoded on their own.
C13_MalformedUtf8 ==
    dstate = "ready" =>
        /\ (DecoderEnded /\ input = <<\h54, \h65, \hC3, \h28, \h73, \h74>>) =>
              /\ Len(items) = 5
              /\ items[1] = OkItem(\h54)
              /\ items[2] = OkItem(\h65)
              /\ items[3].kind = "Err"
              /\ items[4] = OkItem(\h73)
              /\ items[5] = OkItem(\h74)
        /\ (call.n > 0 /\ Len(call.pre_iter) >= 2 /\ TwoByteLead(call.pre_iter[1])
                /\ ~IsContinuation(call.pre_iter[2])) =>
              /\ Len(call.ret) = 1
              /\ call.ret[1].kind = "Err"
              /\ Len(items) = call.n
              /\ iter = SubSeq(call.pre_iter, 3, Len(call.pre_iter))
        /\ Utf8DecodeAll(input) = items \o Utf8DecodeAll(iter)

\* the test's bytes have been decoded to the end of the stream
C13_Witness ==
    /\ DecoderEnded
    /\ kind = "utf8"
    /\ input = <<\h54, \h65, \hC3, \h28, \h73, \h74>>
    /\ Len(items) = 5

\* the units the conversion of the last call's run produced
LastUnits == MultiByteToWideChar(codepage, call.run)

\* the last call returned, and its run converted to n units
Produced(n) ==
    dstate = "ready" /\ call.n > 0 /\ call.run # <<>> /\ Len(LastUnits) = n

IsSurrogate(u) == u >= \hD800 /\ u <= \hDFFF

\* C14: a call whose run converted to two units, the first outside the
\* surrogate range, leaves the last byte of its run, and nothing else, in
\* the pushback slot, has pulled no byte beyond its run, and yields an
\* invalid-data error if the first unit is the default-replacement
\* character and Ok of the first unit otherwise.
C14_TwoUnits ==
    (Produced(2) /\ ~IsSurrogate(LastUnits[1])) =>
        /\ buf = <<call.run[Len(call.run)]>>
        /\ Stream(call) = call.run \o iter
        /\ \A i \in 2..Len(call.srcs) : call.srcs[i] = "iter"
        /\ Len(call.srcs) = Len(call.run)
        /\ Len(items) = call.n
        /\ call.ret = IF LastUnits[1] = default_character
                      THEN <<ErrItem("InvalidData")>>
                      ELSE <<OkItem(LastUnits[1])>>
        /\ items[Len(items)] = call.ret[1]

\* a run of two bytes converted to an ordinary unit and the unit of its
\* last byte: Ok of the first, the last byte pushed back
C14_Witness ==
    /\ Produced(2)
    /\ Len(call.run) = 2
    /\ call.ret = <<OkItem(LastUnits[1])>>
    /\ LastUnits[1] # default_character
    /\ buf = <<call.run[2]>>
    /\ iter # <<>>

\* the last call ran, to its return or to a panic, and its run converted
\* to n units
Converted(n) ==
    dstate \in {"ready", "panicked"} /\ call.n > 0 /\ call.run # <<>>
        /\ Len(LastUnits) = n

\* the last call took the branch that combines two units into one value
Combined ==
    \/ dstate = "panicked"
    \/ call.ret = <<OkItem(CombineSurrogates(LastUnits[1], LastUnits[2]))>>

\* the scalar value of a surrogate pair, in unbounded arithmetic
PairValue(lead, trail) == (lead - \hD800) * 1024 + (trail - \hDC00) + \h10000

\* C15: a call whose run converted to two units combines them only if the
\* first is a leading surrogate; it then yields Ok of
\* ((lead - 0xD800) << 10 | (trail - 0xDC00)) + 0x10000, a value in
\* 0x10000..0x10FFFF computed without 16-bit underflow, and leaves the
\* pushback slot empty.
C15_SurrogatePair ==
    Converted(2) =>
        IF LastUnits[1] >= \hD800 /\ LastUnits[1] <= \hDBFF
        THEN /\ dstate = "ready"
             /\ LastUnits[2] >= \hDC00
             /\ call.ret = <<OkItem(PairValue(LastUnits[1], LastUnits[2]))>>
             /\ call.ret[1].ch >= \h10000
             /\ call.ret[1].ch <= \h10FFFF
             /\ buf = <<>>
        ELSE ~Combined

\* the pair of a leading and a trailing surrogate is combined as C15 says
C15_ValidPair ==
    (Converted(2) /\ LastUnits[1] >= \hD800 /\ LastUnits[1] <= \hDBFF
        /\ LastUnits[2] >= \hDC00 /\ LastUnits[2] <= \hDFFF) =>
        /\ dstate = "ready"
        /\ call.ret = <<OkItem(PairValue(LastUnits[1], LastUnits[2]))>>
        /\ call.ret[1].ch >= \h10000
        /\ call.ret[1].ch <= \h10FFFF
        /\ buf = <<>>

\* C16: a call whose run converted to three units returns with the last
\* byte of its run in the pushback slot and yields an invalid-input error
\* item, never an Ok item; the first of the three units is 0xDFFF, the
\* value the call asserts.
C16_ThreeUnits ==
    Converted(3) =>
        /\ dstate = "ready"
        /\ LastUnits[1] = \hDFFF
        /\ buf = <<call.run[Len(call.run)]>>
        /\ call.ret = <<ErrItem("InvalidInput")>>
        /\ items[Len(items)] = ErrItem("InvalidInput")

\* where the call returns, the three-unit outcome is handled as C16 says
C16_ThreeUnitsReturned ==
    Produced(3) =>
        /\ buf = <<call.run[Len(call.run)]>>
        /\ Stream(call) = call.run \o iter
        /\ call.ret = <<ErrItem("InvalidInput")>>
        /\ Len(items) = call.n
        /\ items[Len(items)] = ErrItem("InvalidInput")

\* the bytes by which the last call advanced the stream position: taken
\* from the pushback slot, plus pulled from upstream, minus pushed back
Advance ==
    Len(call.pre_buf) + (Len(call.pre_iter) - Len(iter)) - Len(buf)

\* C17: every call that yields an item advances the stream position by at
\* least one byte, whatever the conversion reported; so a stream of n bytes
\* yields at most n items, and the pushback slot is empty, with the
\* upstream exhausted, when the end of the stream is reported.
C17_Progress ==
    dstate = "ready" =>
        /\ (call.n > 0 /\ call.ret # <<>>) => Advance >= 1
        /\ Len(items) <= Len(input)
        /\ DecoderEnded => (buf = <<>> /\ iter = <<>>)

\* progress wherever the call did not push back the only byte of its run
C17_ProgressBeyondOneByte ==
    (dstate = "ready" /\ call.n > 0 /\ call.ret # <<>>) =>
        /\ Advance >= 0
        /\ (Len(call.run) >= 2 \/ Len(LastUnits) \notin {2, 3}) => Advance >= 1
        /\ DecoderEnded => (buf = <<>> /\ iter = <<>>)

\* C18: in every state of ByteEncoder and Utf8Encoder a non-zero count of
\* valid bytes is between 2 and 4, it is the number of bytes written for
\* the character pulled last, and the cursor is at least 1 and below the
\* count, so the byte read next lies inside the buffer and inside those
\* bytes; a character that produced exactly one byte leaves the count at
\* zero.
C18_BufferBounds ==
    estate # "unbuilt" =>
        /\ buffer_size # 0 =>
              /\ buffer_size >= 2
              /\ buffer_size <= BufferLen
              /\ buffer_index >= 1
              /\ buffer_index < buffer_size
              /\ buffer_index \in DOMAIN buffer
              /\ Consumed # <<>>
              /\ buffer_size = Len(RunOf(Consumed[Len(Consumed)]))
              /\ estate = "ready"
        /\ (ecall.n > 0 /\ ecall.got # <<>> /\ Len(RunOf(ecall.got[1])) = 1) =>
              /\ buffer_size = 0
              /\ ecall.ret = RunOf(ecall.got[1])

\* the last byte of a character of four bytes is to be read next
C18_Witness ==
    /\ estate = "ready"
    /\ buffer_size = BufferLen
    /\ buffer_index = BufferLen - 1
    /\ Len(emitted) >= 3

====
